---- MODULE Spec2Model ----
(***************************************************************************)
(* Model of quicksight-technical.py: a module whose top level binds a      *)
(* policy document and five functions, each of which builds one request    *)
(* from literals and sends it through a boto3 client.                      *)
(*                                                                         *)
(* Python values are modelled as follows: dict -> record, list -> sequence,*)
(* True/False -> TRUE/FALSE, int -> integer.  A str is a TLA+ string,       *)
(* except the strings whose inner structure matters to a reader of the     *)
(* request (cron expressions, ARNs and the identifiers ARNs embed): those  *)
(* are sequences of one-character strings so that they can be split.       *)
(***************************************************************************)
EXTENDS Integers, Sequences, FiniteSets, TLC

VARIABLES
    runAs,      \* how the file is executed: "__main__" (python file.py) or "module" (loaded by a host)
    pc,         \* position of the module top level
    namespace,  \* names bound in the module's globals
    calls,      \* one record per function invocation: what it returned or raised
    requests    \* every remote API request issued, in order, with its outcome

vars == <<runAs, pc, namespace, calls, requests>>

\* Bound on the number of function invocations a host performs.
MaxCalls == 3

-----------------------------------------------------------------------------
(* String literals of the source that have inner structure. *)

\* 'cron(0 0 * * ? *)'
Lit_cron_daily ==
    <<"c","r","o","n","(","0"," ","0"," ","*"," ","*"," ","?"," ","*",")">>

\* 'your-account-id'
Lit_your_account_id ==
    <<"y","o","u","r","-","a","c","c","o","u","n","t","-","i","d">>

\* 'sales_dataset'
Lit_sales_dataset ==
    <<"s","a","l","e","s","_","d","a","t","a","s","e","t">>

\* 'sales_analysis'
Lit_sales_analysis ==
    <<"s","a","l","e","s","_","a","n","a","l","y","s","i","s">>

\* 'sales_dashboard'
Lit_sales_dashboard ==
    <<"s","a","l","e","s","_","d","a","s","h","b","o","a","r","d">>

\* 'arn:aws:quicksight:region:account:datasource/source-id'
Lit_datasource_arn ==
    <<"a","r","n",":","a","w","s",":","q","u","i","c","k","s","i","g","h","t",":","r","e","g","i","o","n",":","a","c","c","o","u","n","t",":","d","a","t","a","s","o","u","r","c","e","/","s","o","u","r","c","e","-","i","d">>

\* 'arn:aws:quicksight:region:account:user/default/user1'
Lit_user_arn ==
    <<"a","r","n",":","a","w","s",":","q","u","i","c","k","s","i","g","h","t",":","r","e","g","i","o","n",":","a","c","c","o","u","n","t",":","u","s","e","r","/","d","e","f","a","u","l","t","/","u","s","e","r","1">>

\* 'arn:aws:quicksight:region:account:group/default/analysts'
Lit_group_arn ==
    <<"a","r","n",":","a","w","s",":","q","u","i","c","k","s","i","g","h","t",":","r","e","g","i","o","n",":","a","c","c","o","u","n","t",":","g","r","o","u","p","/","d","e","f","a","u","l","t","/","a","n","a","l","y","s","t","s">>

\* 'arn:aws:quicksight:region:account:dataset/sales_dataset'
Lit_dataset_arn ==
    <<"a","r","n",":","a","w","s",":","q","u","i","c","k","s","i","g","h","t",":","r","e","g","i","o","n",":","a","c","c","o","u","n","t",":","d","a","t","a","s","e","t","/","s","a","l","e","s","_","d","a","t","a","s","e","t">>

\* 'arn:aws:quicksight:region:account:template/sales_template'
Lit_template_arn ==
    <<"a","r","n",":","a","w","s",":","q","u","i","c","k","s","i","g","h","t",":","r","e","g","i","o","n",":","a","c","c","o","u","n","t",":","t","e","m","p","l","a","t","e","/","s","a","l","e","s","_","t","e","m","p","l","a","t","e">>

-----------------------------------------------------------------------------
(* Reading structured strings: what the receiving service does with them. *)

\* str.split(sep): the maximal pieces of s between occurrences of sep.
SplitOn(s, sep) ==
    LET cuts == {i \in DOMAIN s : s[i] = sep}
        Cut(n) == CHOOSE c \in cuts : Cardinality({d \in cuts : d < c}) = n - 1
        pieces == Cardinality(cuts) + 1
        Lo(n) == IF n = 1 THEN 0 ELSE Cut(n - 1)
        Hi(n) == IF n = pieces THEN Len(s) + 1 ELSE Cut(n)
    IN  [n \in 1..pieces |-> SubSeq(s, Lo(n) + 1, Hi(n) - 1)]

Digits == {"0", "1", "2", "3", "4", "5", "6", "7", "8", "9"}

StartsWith(s, p) == Len(s) >= Len(p) /\ SubSeq(s, 1, Len(p)) = p

\* The fields between "cron(" and ")" of a schedule expression.
CronFields(s) == SplitOn(SubSeq(s, 6, Len(s) - 1), " ")

\* One cron field: a wildcard, the no-value mark, or a number.
CronFieldOk(f) ==
    \/ f = <<"*">>
    \/ f = <<"?">>
    \/ (f # <<>> /\ \A i \in DOMAIN f : f[i] \in Digits)

\* cron(minute hour day-of-month month day-of-week year); exactly one of
\* day-of-month and day-of-week is the no-value mark "?".
CronWellFormed(s) ==
    /\ StartsWith(s, <<"c","r","o","n","(">>)
    /\ s[Len(s)] = ")"
    /\ LET f == CronFields(s)
       IN  /\ Len(f) = 6
           /\ \A i \in DOMAIN f : CronFieldOk(f[i])
           /\ f[1] \notin {<<"?">>} /\ f[2] \notin {<<"?">>}
           /\ f[4] \notin {<<"?">>} /\ f[6] \notin {<<"?">>}
           /\ (f[3] = <<"?">>) # (f[5] = <<"?">>)

\* arn:partition:service:region:account:resourcetype/resource-path
ArnParts(arn) == SplitOn(arn, ":")
ArnResource(arn) == SplitOn(ArnParts(arn)[6], "/")
ArnWellFormed(arn) ==
    /\ Len(ArnParts(arn)) = 6
    /\ ArnParts(arn)[1] = <<"a","r","n">>
    /\ Len(ArnResource(arn)) >= 2
ArnAccount(arn) == ArnParts(arn)[5]
ArnResourceType(arn) == ArnResource(arn)[1]
ArnResourceId(arn) == ArnResource(arn)[Len(ArnResource(arn))]

Kind_dataset == <<"d","a","t","a","s","e","t">>
Kind_dashboard == <<"d","a","s","h","b","o","a","r","d">>
Kind_analysis == <<"a","n","a","l","y","s","i","s">>
Kind_template == <<"t","e","m","p","l","a","t","e">>
Kind_crawler == <<"c","r","a","w","l","e","r">>
Kind_group == <<"g","r","o","u","p">>

-----------------------------------------------------------------------------
(* The literals the module and its functions build. *)

quicksight_role_policy ==
    [Version |-> "2012-10-17",
     Statement |-> <<
        [Effect |-> "Allow",
         Action |-> <<"s3:GetObject", "s3:ListBucket",
                      "athena:StartQueryExecution", "athena:GetQueryResults">>,
         Resource |-> <<"arn:aws:s3:::your-bucket/*", "arn:aws:athena:*">>] >>]

\* Variant: the schedule in the five-field unix form 'cron(0 0 * * *)'.
create_crawler_args_unix_cron ==
    [Name |-> "sales_data_crawler",
     Role |-> "AWSGlueServiceRole",
     DatabaseName |-> "sales_db",
     Targets |-> [S3Targets |-> << [Path |-> "s3://your-bucket/sales-data/"] >>],
     Schedule |-> <<"c","r","o","n","(","0"," ","0"," ","*"," ","*"," ","*",")">>]

\* Variant: the crawler name is made unique per call from the number of
\* requests already issued.
create_crawler_args_numbered ==
    [Name |-> IF requests = <<>> THEN "sales_data_crawler" ELSE "sales_data_crawler_n",
     Role |-> "AWSGlueServiceRole",
     DatabaseName |-> "sales_db",
     Targets |-> [S3Targets |-> << [Path |-> "s3://your-bucket/sales-data/"] >>],
     Schedule |-> Lit_cron_daily]

\* create_glue_crawler: the keyword arguments of glue.create_crawler
create_crawler_args ==
    [Name |-> "sales_data_crawler",
     Role |-> "AWSGlueServiceRole",
     DatabaseName |-> "sales_db",
     Targets |-> [S3Targets |-> << [Path |-> "s3://your-bucket/sales-data/"] >>],
     Schedule |-> Lit_cron_daily]

\* create_quicksight_dataset: local variable physical_table
physical_table ==
    [RelationalTable |->
        [DataSourceArn |-> Lit_datasource_arn,
         Schema |-> "sales_db",
         Name |-> "sales_table",
         InputColumns |-> <<
            [Name |-> "sale_date", Type |-> "DATETIME"],
            [Name |-> "product_id", Type |-> "STRING"],
            [Name |-> "quantity", Type |-> "INTEGER"],
            [Name |-> "revenue", Type |-> "DECIMAL"] >>]]

\* Variant: the operands of the derived column swapped.
logical_table_swapped ==
    [Alias |-> "sales_analysis",
     DataTransforms |-> <<
        [CreateColumnsOperation |->
            [Columns |-> <<
                [ColumnName |-> "unit_price",
                 ColumnId |-> "unit_price",
                 Expression |-> "quantity / revenue"] >>]] >>]

\* create_quicksight_dataset: local variable logical_table
logical_table ==
    [Alias |-> "sales_analysis",
     DataTransforms |-> <<
        [CreateColumnsOperation |->
            [Columns |-> <<
                [ColumnName |-> "unit_price",
                 ColumnId |-> "unit_price",
                 Expression |-> "revenue / quantity"] >>]] >>]

\* create_quicksight_dataset: the keyword arguments of quicksight.create_data_set.
\* physical_table is not among them; PhysicalTableId is the string 'sales_table'.
create_data_set_args ==
    [AwsAccountId |-> Lit_your_account_id,
     DataSetId |-> Lit_sales_dataset,
     Name |-> "Sales Analysis Dataset",
     PhysicalTableId |-> "sales_table",
     LogicalTableMap |-> [sales_table |-> logical_table],
     ImportMode |-> "SPICE",
     RefreshSchedule |->
        [Schedule |-> Lit_cron_daily,
         RefreshType |-> "INCREMENTAL_REFRESH",
         IncrementalRefreshProperties |->
            [LookbackWindow |-> 1, LookbackWindowUnit |-> "DAYS"]]]

\* Variant: the line chart carries the identifier the drill-down targets.
sheet_definition_with_target ==
    [Visuals |-> <<
        [LineChartVisual |->
            [VisualId |-> "product_details",
             Title |-> [Visible |-> TRUE, Text |-> "Sales Trend"],
             XAxis |-> [FieldId |-> "sale_date"],
             YAxis |-> [FieldId |-> "revenue"],
             Legend |-> [Visible |-> TRUE, Position |-> "RIGHT"],
             DataLabels |-> [Visible |-> TRUE],
             Actions |-> <<
                [ActionOperations |-> <<
                    [DrillDownOperation |-> [TargetVisual |-> "product_details"]] >>,
                 Triggers |-> <<"CLICK">>] >>]] >>]

\* create_analysis: local variable sheet_definition
sheet_definition ==
    [Visuals |-> <<
        [LineChartVisual |->
            [Title |-> [Visible |-> TRUE, Text |-> "Sales Trend"],
             XAxis |-> [FieldId |-> "sale_date"],
             YAxis |-> [FieldId |-> "revenue"],
             Legend |-> [Visible |-> TRUE, Position |-> "RIGHT"],
             DataLabels |-> [Visible |-> TRUE],
             Actions |-> <<
                [ActionOperations |-> <<
                    [DrillDownOperation |-> [TargetVisual |-> "product_details"]] >>,
                 Triggers |-> <<"CLICK">>] >>]] >>]

\* create_analysis: the keyword arguments of quicksight.create_analysis
create_analysis_args ==
    [AwsAccountId |-> Lit_your_account_id,
     AnalysisId |-> Lit_sales_analysis,
     Name |-> "Sales Analysis",
     Definition |-> sheet_definition,
     Permissions |-> <<
        [Principal |-> Lit_user_arn,
         Actions |-> <<"quicksight:DescribeAnalysis", "quicksight:UpdateAnalysis">>] >>]

\* Variant: the grant copied from create_analysis, whose principal is a user.
create_dashboard_args_user_grant ==
    [AwsAccountId |-> Lit_your_account_id,
     DashboardId |-> Lit_sales_dashboard,
     Name |-> "Sales Dashboard",
     Permissions |-> <<
        [Principal |-> Lit_user_arn,
         Actions |-> <<"quicksight:DescribeDashboard",
                       "quicksight:ListDashboardVersions",
                       "quicksight:QueryDashboard">>] >>,
     SourceEntity |->
        [SourceTemplate |->
            [DataSetReferences |-> <<
                [DataSetPlaceholder |-> "sales_data",
                 DataSetArn |-> Lit_dataset_arn] >>,
             Arn |-> Lit_template_arn]],
     VersionDescription |-> "Initial version"]

\* publish_dashboard: the keyword arguments of quicksight.create_dashboard
create_dashboard_args ==
    [AwsAccountId |-> Lit_your_account_id,
     DashboardId |-> Lit_sales_dashboard,
     Name |-> "Sales Dashboard",
     Permissions |-> <<
        [Principal |-> Lit_group_arn,
         Actions |-> <<"quicksight:DescribeDashboard",
                       "quicksight:ListDashboardVersions",
                       "quicksight:QueryDashboard">>] >>,
     SourceEntity |->
        [SourceTemplate |->
            [DataSetReferences |-> <<
                [DataSetPlaceholder |-> "sales_data",
                 DataSetArn |-> Lit_dataset_arn] >>,
             Arn |-> Lit_template_arn]],
     VersionDescription |-> "Initial version"]

\* get_dashboard_url: the keyword arguments of quicksight.get_dashboard_embed_url
get_dashboard_embed_url_args ==
    [AwsAccountId |-> Lit_your_account_id,
     DashboardId |-> Lit_sales_dashboard,
     IdentityType |-> "IAM",
     SessionLifetimeInMinutes |-> 600,
     UndoRedoDisabled |-> FALSE,
     ResetDisabled |-> FALSE]

-----------------------------------------------------------------------------
(* The remote services, seen from the client: every request gets either a  *)
(* response or an error, at the service's discretion.                      *)

EmbedUrls == {"https://embed.example/session-a", "https://embed.example/session-b"}

ErrorCodes == {"AccessDeniedException", "ThrottlingException"}

Responses(api) ==
    IF api = "get_dashboard_embed_url"
    THEN {[EmbedUrl |-> u, Status |-> 200, RequestId |-> "request-id"] : u \in EmbedUrls}
    ELSE {[Status |-> 200, RequestId |-> "request-id"]}

Outcomes(api) ==
    {[ok |-> TRUE, body |-> b] : b \in Responses(api)}
        \cup {[ok |-> FALSE, error |-> [type |-> "ClientError", code |-> c]] : c \in ErrorCodes}

-----------------------------------------------------------------------------
(* The module top level: imports, one assignment, five function           *)
(* definitions, and nothing after them.                                    *)

TopLevel ==
    << [op |-> "import", name |-> "boto3"],
       [op |-> "import", name |-> "json"],
       [op |-> "assign", name |-> "quicksight_role_policy"],
       [op |-> "def", name |-> "create_glue_crawler"],
       [op |-> "def", name |-> "create_quicksight_dataset"],
       [op |-> "def", name |-> "create_analysis"],
       [op |-> "def", name |-> "publish_dashboard"],
       [op |-> "def", name |-> "get_dashboard_url"] >>

AtEnd == pc = Len(TopLevel) + 1

Init ==
    /\ runAs \in {"__main__", "module"}
    /\ pc = 1
    /\ namespace = {}
    /\ calls = <<>>
    /\ requests = <<>>

\* One top-level statement: bind its name and move to the next statement.
Execute(op) ==
    /\ pc \in DOMAIN TopLevel
    /\ TopLevel[pc].op = op
    /\ namespace' = namespace \cup {TopLevel[pc].name}
    /\ pc' = pc + 1
    /\ UNCHANGED <<runAs, calls, requests>>

Import == Execute("import")
Assign == Execute("assign")
Def == Execute("def")

-----------------------------------------------------------------------------
(* The five functions.  Each creates a client, makes one call with its     *)
(* literal arguments, and returns; an error raised by the client leaves    *)
(* the function at the call.                                               *)

\* Variant: a failed request is sent once more.
Sent_with_retry(service, api, args, outcome, by) ==
    LET r == [service |-> service, api |-> api, args |-> args, by |-> by, outcome |-> outcome]
    IN  IF outcome.ok THEN <<r>> ELSE <<r, r>>

\* The requests one invocation issues through its client.
Sent(service, api, args, outcome, by) ==
    << [service |-> service, api |-> api, args |-> args, by |-> by, outcome |-> outcome] >>

\* The return statement of each function.
Returns(fn, response) ==
    IF fn = "get_dashboard_url" THEN response.EmbedUrl ELSE response

\* How an invocation ends: the return value, or the client's error propagating.
Result(fn, outcome) ==
    IF outcome.ok
    THEN [kind |-> "return", value |-> Returns(fn, outcome.body)]
    ELSE [kind |-> "raise", error |-> outcome.error]

\* A host that loaded the module may call any function it defines.
Callable(fn) ==
    /\ runAs = "module"
    /\ AtEnd
    /\ fn \in namespace
    /\ Len(calls) < MaxCalls

Invocation(fn, service, api, args) ==
    /\ Callable(fn)
    /\ \E outcome \in Outcomes(api) :
        /\ requests' = requests \o Sent(service, api, args, outcome, Len(calls) + 1)
        /\ calls' = Append(calls, [fn |-> fn, result |-> Result(fn, outcome)])
    /\ UNCHANGED <<runAs, pc, namespace>>

create_glue_crawler ==
    Invocation("create_glue_crawler", "glue", "create_crawler", create_crawler_args)

create_quicksight_dataset ==
    Invocation("create_quicksight_dataset", "quicksight", "create_data_set", create_data_set_args)

create_analysis ==
    Invocation("create_analysis", "quicksight", "create_analysis", create_analysis_args)

publish_dashboard ==
    Invocation("publish_dashboard", "quicksight", "create_dashboard", create_dashboard_args)

\* Variant: the URL of an earlier successful call is kept and returned
\* without a new request.
get_dashboard_url_cached ==
    LET earlier == {i \in DOMAIN calls : /\ calls[i].fn = "get_dashboard_url"
                                         /\ calls[i].result.kind = "return"}
    IN  IF earlier = {}
        THEN Invocation("get_dashboard_url", "quicksight", "get_dashboard_embed_url",
                        get_dashboard_embed_url_args)
        ELSE /\ Callable("get_dashboard_url")
             /\ calls' = Append(calls, calls[CHOOSE i \in earlier : TRUE])
             /\ UNCHANGED <<runAs, pc, namespace, requests>>

get_dashboard_url ==
    Invocation("get_dashboard_url", "quicksight", "get_dashboard_embed_url",
               get_dashboard_embed_url_args)

Next ==
    \/ Import
    \/ Assign
    \/ Def
    \/ create_glue_crawler
    \/ create_quicksight_dataset
    \/ create_analysis
    \/ publish_dashboard
    \/ get_dashboard_url

Spec == Init /\ [][Next]_vars

-----------------------------------------------------------------------------
(* Reading the request log. *)

RequestsBy(i) == {k \in DOMAIN requests : requests[k].by = i}
CallsOf(fn) == {i \in DOMAIN calls : calls[i].fn = fn}
RequestsOf(api) == {k \in DOMAIN requests : requests[k].api = api}
ApiSeq == [k \in DOMAIN requests |-> requests[k].api]
Succeeded(k) == requests[k].outcome.ok

\* Every invocation of fn has sent a request, each of them to api, and each
\* of them satisfies P.
EveryRequestOf(fn, api, P(_)) ==
    \A i \in CallsOf(fn) :
        /\ RequestsBy(i) # {}
        /\ \A k \in RequestsBy(i) : requests[k].api = api /\ P(requests[k].args)

\* The table definitions a create_data_set request carries in its table maps.
TableDefs(args) ==
    UNION { {args[m][t] : t \in DOMAIN args[m]} :
            m \in {"PhysicalTableMap", "LogicalTableMap"} \cap DOMAIN args }

\* The identifiers of the visuals a request defines.
VisualIds(definition) ==
    UNION { { definition.Visuals[i][t].VisualId :
                t \in {u \in DOMAIN definition.Visuals[i] :
                          "VisualId" \in DOMAIN definition.Visuals[i][u]} } :
            i \in DOMAIN definition.Visuals }
DefinedVisualIds(args) ==
    IF "Definition" \in DOMAIN args THEN VisualIds(args.Definition) ELSE {}

\* The resource a successful create request adds to the remote service's
\* records, keyed as the service keys it: kind, owning account, identifier.
\* (A crawler is owned by the account of the caller's credentials, which no
\* request names.)
Created(r) ==
    IF r.api = "create_data_set"
    THEN {[kind |-> Kind_dataset, account |-> r.args.AwsAccountId, id |-> r.args.DataSetId]}
    ELSE IF r.api = "create_analysis"
    THEN {[kind |-> Kind_analysis, account |-> r.args.AwsAccountId, id |-> r.args.AnalysisId]}
    ELSE IF r.api = "create_dashboard"
    THEN {[kind |-> Kind_dashboard, account |-> r.args.AwsAccountId, id |-> r.args.DashboardId]}
    ELSE {}

\* What the remote service has on record when request k arrives.
CreatedBefore(k) ==
    UNION { Created(requests[j]) : j \in {j \in 1..(k - 1) : Succeeded(j)} }

ArnRef(arn) ==
    [kind |-> ArnResourceType(arn), account |-> ArnAccount(arn), id |-> ArnResourceId(arn)]

\* The resources a request refers to.
Refs(r) ==
    IF r.api = "create_dashboard"
    THEN LET t == r.args.SourceEntity.SourceTemplate
         IN  {ArnRef(t.Arn)} \cup {ArnRef(t.DataSetReferences[i].DataSetArn) :
                                      i \in DOMAIN t.DataSetReferences}
    ELSE IF r.api = "get_dashboard_embed_url"
    THEN {[kind |-> Kind_dashboard, account |-> r.args.AwsAccountId, id |-> r.args.DashboardId]}
    ELSE {}

-----------------------------------------------------------------------------
(* C1 *)

ScriptSteps ==
    <<"create_crawler", "create_data_set", "create_analysis", "create_dashboard",
      "get_dashboard_embed_url">>

\* C1: when the file is run as a script and its top level has finished, the
\* five remote calls have each been issued exactly once, in the order
\* create_crawler, create_data_set, create_analysis, create_dashboard,
\* get_dashboard_embed_url.
C1_ScriptIssuesFiveCallsInOrder ==
    (runAs = "__main__" /\ AtEnd) => ApiSeq = ScriptSteps

-----------------------------------------------------------------------------
(* C2 *)

FourInputColumns ==
    << [Name |-> "sale_date", Type |-> "DATETIME"],
       [Name |-> "product_id", Type |-> "STRING"],
       [Name |-> "quantity", Type |-> "INTEGER"],
       [Name |-> "revenue", Type |-> "DECIMAL"] >>

CarriesBothTablesAndSchedule(args) ==
    /\ \E t \in TableDefs(args) :
        /\ "RelationalTable" \in DOMAIN t
        /\ t.RelationalTable.InputColumns = FourInputColumns
    /\ \E t \in TableDefs(args) :
        /\ "Alias" \in DOMAIN t
        /\ t.Alias = "sales_analysis"
    /\ "RefreshSchedule" \in DOMAIN args

\* C2: every create_data_set request sent by create_quicksight_dataset
\* carries the physical table definition (a RelationalTable with the four
\* typed input columns), the logical table definition (alias sales_analysis)
\* and the RefreshSchedule.
C2_RequestCarriesPhysicalAndLogicalTables ==
    EveryRequestOf("create_quicksight_dataset", "create_data_set", CarriesBothTablesAndSchedule)

-----------------------------------------------------------------------------
(* C3 *)

SpiceIncrementalUnitPrice(args) ==
    /\ args.ImportMode = "SPICE"
    /\ args.RefreshSchedule.RefreshType = "INCREMENTAL_REFRESH"
    /\ args.RefreshSchedule.IncrementalRefreshProperties.LookbackWindow = 1
    /\ args.RefreshSchedule.IncrementalRefreshProperties.LookbackWindowUnit = "DAYS"
    /\ Cardinality(DOMAIN args.LogicalTableMap) = 1
    /\ \A t \in DOMAIN args.LogicalTableMap :
        LET transforms == args.LogicalTableMap[t].DataTransforms
        IN  /\ Len(transforms) = 1
            /\ DOMAIN transforms[1] = {"CreateColumnsOperation"}
            /\ Len(transforms[1].CreateColumnsOperation.Columns) = 1
            /\ transforms[1].CreateColumnsOperation.Columns[1].ColumnName = "unit_price"
            /\ transforms[1].CreateColumnsOperation.Columns[1].Expression = "revenue / quantity"

\* C3: every invocation of create_quicksight_dataset sends a request with
\* ImportMode SPICE, RefreshType INCREMENTAL_REFRESH, a lookback window of 1
\* DAYS, and a logical table map of exactly one table with exactly one
\* transform creating exactly one column, unit_price = 'revenue / quantity'.
C3_DatasetRequestFixedFields ==
    EveryRequestOf("create_quicksight_dataset", "create_data_set", SpiceIncrementalUnitPrice)

\* The dataset function has been invoked, once with success and once with failure.
C3_Witness ==
    \E i, j \in CallsOf("create_quicksight_dataset") :
        calls[i].result.kind = "return" /\ calls[j].result.kind = "raise"

-----------------------------------------------------------------------------
(* C4 *)

OneS3TargetAndCron(args) ==
    /\ Len(args.Targets.S3Targets) = 1
    /\ args.Targets.S3Targets[1].Path = "s3://your-bucket/sales-data/"
    /\ args.Schedule = Lit_cron_daily
    /\ CronWellFormed(args.Schedule)
    /\ {"Name", "Role", "DatabaseName"} \subseteq DOMAIN args

\* C4: every invocation of create_glue_crawler sends a create_crawler
\* request with exactly one S3 target path, 's3://your-bucket/sales-data/',
\* a Schedule 'cron(0 0 * * ? *)' that is a well-formed six-field cron
\* expression, and the crawler name, role and catalog database.
C4_CrawlerRequestOneTargetValidCron ==
    EveryRequestOf("create_glue_crawler", "create_crawler", OneS3TargetAndCron)

\* The crawler function has been invoked after another function.
C4_Witness ==
    \E i \in CallsOf("create_glue_crawler") : i > 1 /\ calls[i - 1].fn # "create_glue_crawler"

-----------------------------------------------------------------------------
(* C5 *)

OneTemplateBindingOneGroupGrant(args) ==
    /\ DOMAIN args.SourceEntity = {"SourceTemplate"}
    /\ ArnWellFormed(args.SourceEntity.SourceTemplate.Arn)
    /\ ArnResourceType(args.SourceEntity.SourceTemplate.Arn) = Kind_template
    /\ Len(args.SourceEntity.SourceTemplate.DataSetReferences) = 1
    /\ DOMAIN args.SourceEntity.SourceTemplate.DataSetReferences[1]
          = {"DataSetPlaceholder", "DataSetArn"}
    /\ ArnWellFormed(args.SourceEntity.SourceTemplate.DataSetReferences[1].DataSetArn)
    /\ Len(args.Permissions) = 1
    /\ ArnWellFormed(args.Permissions[1].Principal)
    /\ ArnResourceType(args.Permissions[1].Principal) = Kind_group

\* C5: every invocation of publish_dashboard sends a create_dashboard
\* request that sources from a template ARN, has exactly one data set
\* reference binding one placeholder to one data set ARN, and exactly one
\* permission grant, whose principal is a group.
C5_DashboardRequestOneBindingGroupGrant ==
    EveryRequestOf("publish_dashboard", "create_dashboard", OneTemplateBindingOneGroupGrant)

\* The dashboard function has been invoked twice.
C5_Witness == Cardinality(CallsOf("publish_dashboard")) >= 2

-----------------------------------------------------------------------------
(* C6 *)

EmbedSessionFields(args) ==
    /\ args.SessionLifetimeInMinutes = 600
    /\ args.UndoRedoDisabled = FALSE
    /\ args.ResetDisabled = FALSE

\* C6: every invocation of get_dashboard_url sends exactly one request of
\* its own, with SessionLifetimeInMinutes 600 and both disable flags false,
\* and when that request succeeds it returns the EmbedUrl of that request's
\* response.
C6_EmbedUrlRequestAndReturn ==
    /\ EveryRequestOf("get_dashboard_url", "get_dashboard_embed_url", EmbedSessionFields)
    /\ \A i \in CallsOf("get_dashboard_url") :
        /\ Cardinality(RequestsBy(i)) = 1
        /\ \A k \in RequestsBy(i) :
            Succeeded(k) =>
                /\ calls[i].result.kind = "return"
                /\ calls[i].result.value \in EmbedUrls
                /\ calls[i].result.value = requests[k].outcome.body.EmbedUrl

\* Two invocations of get_dashboard_url succeeded and returned different URLs.
C6_Witness ==
    \E i, j \in CallsOf("get_dashboard_url") :
        /\ i < j
        /\ calls[i].result.kind = "return"
        /\ calls[j].result.kind = "return"
        /\ calls[i].result.value # calls[j].result.value

-----------------------------------------------------------------------------
(* C7 *)

\* C7: any two requests sent to the same API carry the same payload,
\* whatever was invoked, and whatever was answered, between and before them.
C7_PayloadsHistoryIndependent ==
    \A j, k \in DOMAIN requests :
        requests[j].api = requests[k].api =>
            /\ requests[j].service = requests[k].service
            /\ requests[j].args = requests[k].args

\* The same function was invoked twice, after a failure of another function
\* and with a success of another function in between.
C7_Witness ==
    /\ Len(requests) = 3
    /\ requests[1].api # requests[2].api
    /\ requests[2].api = requests[3].api
    /\ ~Succeeded(1)
    /\ Succeeded(2)

-----------------------------------------------------------------------------
(* C8 *)

\* C8: every invocation has issued exactly one request, and when that
\* request failed the invocation ended by raising exactly the client's
\* error, with no return value.
C8_OneRequestFailurePropagates ==
    /\ Len(requests) = Len(calls)
    /\ \A i \in DOMAIN calls :
        /\ Cardinality(RequestsBy(i)) = 1
        /\ \A k \in RequestsBy(i) :
            ~Succeeded(k) =>
                calls[i].result = [kind |-> "raise", error |-> requests[k].outcome.error]

\* The bound's worth of invocations, of more than one function, all failed.
C8_Witness ==
    /\ Len(calls) = MaxCalls
    /\ \A i \in DOMAIN calls : calls[i].result.kind = "raise"
    /\ calls[1].fn # calls[2].fn

-----------------------------------------------------------------------------
(* C9 *)

OneLineChartOneClickDrillDown(args) ==
    /\ Len(args.Definition.Visuals) = 1
    /\ DOMAIN args.Definition.Visuals[1] = {"LineChartVisual"}
    /\ LET actions == args.Definition.Visuals[1].LineChartVisual.Actions
       IN  /\ Len(actions) = 1
           /\ actions[1].Triggers = <<"CLICK">>
           /\ Len(actions[1].ActionOperations) = 1
           /\ DOMAIN actions[1].ActionOperations[1] = {"DrillDownOperation"}
           /\ actions[1].ActionOperations[1].DrillDownOperation.TargetVisual = "product_details"

DrillDownTarget(args) ==
    args.Definition.Visuals[1].LineChartVisual.Actions[1].ActionOperations[1]
        .DrillDownOperation.TargetVisual

\* C9: every create_analysis request defines exactly one visual, a line
\* chart with one click-triggered drill-down action targeting
\* 'product_details', and no request the script has sent defines a visual
\* with that identifier.
C9_DrillDownTargetDangling ==
    /\ EveryRequestOf("create_analysis", "create_analysis", OneLineChartOneClickDrillDown)
    /\ \A k \in RequestsOf("create_analysis") : \A j \in DOMAIN requests :
        DrillDownTarget(requests[k].args) \notin DefinedVisualIds(requests[j].args)

\* An analysis was created, and a dashboard and another analysis after it.
C9_Witness ==
    /\ Len(requests) = 3
    /\ requests[1].api = "create_analysis" /\ Succeeded(1)
    /\ requests[2].api = "create_dashboard" /\ Succeeded(2)
    /\ requests[3].api = "create_analysis"

-----------------------------------------------------------------------------
(* C10 *)

\* C10: whenever create_data_set, then create_dashboard, then
\* get_dashboard_embed_url have each succeeded, every dataset and dashboard
\* that the dashboard request and the embed request refer to is one the
\* remote service recorded from an earlier successful request of the script.
C10_ReferencesResolveToCreated ==
    \A i, j, k \in DOMAIN requests :
        ( /\ i < j /\ j < k
          /\ requests[i].api = "create_data_set" /\ Succeeded(i)
          /\ requests[j].api = "create_dashboard" /\ Succeeded(j)
          /\ requests[k].api = "get_dashboard_embed_url" /\ Succeeded(k) )
        => \A n \in {j, k} : \A ref \in Refs(requests[n]) :
              ref.kind \in {Kind_dataset, Kind_dashboard} => ref \in CreatedBefore(n)
====
